---- MODULE Spec2Model ----
(***************************************************************************)
(* Import-migration scripts of Planidocs (src/scripts).                    *)
(*                                                                         *)
(* Text is a sequence of lexemes (strings such as "from ", "../" and       *)
(* "lib/firebase/config"); their concatenation is the text of the file.    *)
(* The lexemes are the units the scripts' patterns are made of.  A regular *)
(* expression is a sequence of elements, each a class of lexemes, possibly *)
(* starred, possibly inside capture group 1.  Every pattern of the three   *)
(* scripts consumes at least one lexeme: zero-width matches do not arise.  *)
(***************************************************************************)
EXTENDS Integers, Sequences, FiniteSets, TLC

VARIABLES
    rules,           \* the registry iterated by process_file (IMPORT_RULES)
    disk,            \* the file tree: path -> bytes of the file, as lexemes
    start,           \* the tree as it was when the current run began
    dry_run,         \* args.dry_run of the current run
    pc,              \* position of main(): Idle, Processing, Transformed, Done, Crashed
    files,           \* find_typescript_files(root_dir)
    idx,             \* number of files the for loop of main() has taken
    modified_files,  \* main(): modified_files
    total_changes,   \* main(): total_changes
    pending,         \* process_file between its transform and its write: its locals
    results,         \* what process_file returned, per file taken, in order
    writes,          \* the writes performed by the current run, in order
    printed,         \* the summary block printed by main()
    runs,            \* number of invocations of the script so far
    prev,            \* mode, results, writes and summary of the previous invocation
    calls,           \* the entry-point calls made on the tree (entry-point specification)
    ord              \* input and outputs of the two registry orders (order specification)

vars == <<rules, disk, start, dry_run, pc, files, idx, modified_files, total_changes,
          pending, results, writes, printed, runs, prev, calls, ord>>

(***************************************************************************)
(* Bounds of the model.                                                    *)
(***************************************************************************)
MaxUp == 3        \* deepest "../" prefix of an import path in a file
MaxRepeat == 2    \* import statements per file
MaxRuns == 2      \* invocations of the script on the same tree

(***************************************************************************)
(* Regular expressions: re.findall and re.sub on lexeme sequences.         *)
(***************************************************************************)
\* An element takes one lexeme (or, starred, a run of lexemes) of its class:
\* the lexemes in cls, or with neg those outside it.
Takes(e, lexeme) == (lexeme \in e.cls) # e.neg

Lit(toks) ==
    [i \in 1..Len(toks) |-> [cls |-> {toks[i]}, neg |-> FALSE, star |-> FALSE, grp |-> 0]]

\* [\'"]
Quote == [cls |-> {"'", "\""}, neg |-> FALSE, star |-> FALSE, grp |-> 0]

\* e* and (e*)
Star(e) == [e EXCEPT !.star = TRUE]
Grouped(e) == [e EXCEPT !.grp = 1]

\* . : anything but a newline
Dot == [cls |-> {"\n"}, neg |-> TRUE, star |-> FALSE, grp |-> 0]

\* \s
Space == [cls |-> {" ", "\n", "\r"}, neg |-> FALSE, star |-> FALSE, grp |-> 0]

RECURSIVE RunLen(_, _, _)
RunLen(e, s, p) ==
    IF p <= Len(s) /\ Takes(e, s[p]) THEN 1 + RunLen(e, s, p + 1) ELSE 0

NoMatch == [ok |-> FALSE, ends |-> <<>>]

RECURSIVE re_match_from(_, _, _, _, _)
RECURSIVE Backtrack(_, _, _, _, _, _)
\* Match elements k.. of pat against s at position p, as the backtracking
\* matcher does; ends[i] is the position after the text taken by element i.
re_match_from(pat, k, s, p, ends) ==
    IF k > Len(pat) THEN [ok |-> TRUE, ends |-> ends]
    ELSE IF pat[k].star THEN Backtrack(pat, k, s, p, RunLen(pat[k], s, p), ends)
    ELSE IF p <= Len(s) /\ Takes(pat[k], s[p])
         THEN re_match_from(pat, k + 1, s, p + 1, Append(ends, p + 1))
         ELSE NoMatch

\* A greedy star: the longest run first, then one lexeme less at a time.
Backtrack(pat, k, s, p, n, ends) ==
    LET r == re_match_from(pat, k + 1, s, p + n, Append(ends, p + n))
    IN  IF r.ok \/ n = 0 THEN r ELSE Backtrack(pat, k, s, p, n - 1, ends)

\* pattern.match(s, p): a match of the whole pattern starting at p.
re_match(pat, s, p) == re_match_from(pat, 1, s, p, <<>>)

\* The text captured by group 1 of a match of pat that started at p.
Group1(pat, s, p, ends) ==
    LET G  == {k \in 1..Len(pat) : pat[k].grp = 1}
        lo == IF G = {} THEN 1 ELSE CHOOSE k \in G : \A j \in G : k <= j
        hi == IF G = {} THEN 0 ELSE CHOOSE k \in G : \A j \in G : k >= j
        from == IF lo = 1 THEN p ELSE ends[lo - 1]
    IN  IF G = {} THEN <<>> ELSE SubSeq(s, from, ends[hi] - 1)

RECURSIVE Expand(_, _)
\* A replacement template: the lexeme "\\1" stands for group 1.
Expand(template, g1) ==
    IF template = <<>> THEN <<>>
    ELSE (IF Head(template) = "\\1" THEN g1 ELSE <<Head(template)>>)
         \o Expand(Tail(template), g1)

RECURSIVE re_findall_from(_, _, _)
re_findall_from(pat, s, p) ==
    IF p > Len(s) THEN <<>>
    ELSE LET m == re_match(pat, s, p)
         IN  IF m.ok
             THEN <<SubSeq(s, p, m.ends[Len(pat)] - 1)>>
                  \o re_findall_from(pat, s, m.ends[Len(pat)])
             ELSE re_findall_from(pat, s, p + 1)

\* re.findall(pattern, content): the non-overlapping matches, left to right.
re_findall(pat, s) == re_findall_from(pat, s, 1)

RECURSIVE re_sub_from(_, _, _, _)
re_sub_from(pat, repl, s, p) ==
    IF p > Len(s) THEN <<>>
    ELSE LET m == re_match(pat, s, p)
         IN  IF m.ok
             THEN Expand(repl, Group1(pat, s, p, m.ends))
                  \o re_sub_from(pat, repl, s, m.ends[Len(pat)])
             ELSE <<s[p]>> \o re_sub_from(pat, repl, s, p + 1)

\* As re.sub with count=1: only the leftmost match replaced.
re_sub_first(pat, repl, s) ==
    LET at == {p \in 1..Len(s) : re_match(pat, s, p).ok}
        p  == CHOOSE q \in at : \A o \in at : q <= o
    IN  IF at = {} THEN s
        ELSE SubSeq(s, 1, p - 1) \o Expand(repl, Group1(pat, s, p, re_match(pat, s, p).ends))
             \o SubSeq(s, re_match(pat, s, p).ends[Len(pat)], Len(s))

\* re.sub(pattern, replacement, content): every match replaced.
re_sub(pat, repl, s) == re_sub_from(pat, repl, s, 1)

\* re.search(pattern, content) is not None.
re_search(pat, s) == \E p \in 1..Len(s) : re_match(pat, s, p).ok

(***************************************************************************)
(* Text-mode file I/O (open(..., 'r') / open(..., 'w'), newline=None).     *)
(***************************************************************************)
RECURSIVE ReadText(_)
\* Universal newlines on read: "\r\n" and a lone "\r" both become "\n".
ReadText(bytes) ==
    IF bytes = <<>> THEN <<>>
    ELSE IF Head(bytes) = "\r"
         THEN IF Len(bytes) >= 2 /\ bytes[2] = "\n"
              THEN <<"\n">> \o ReadText(Tail(Tail(bytes)))
              ELSE <<"\n">> \o ReadText(Tail(bytes))
         ELSE <<Head(bytes)>> \o ReadText(Tail(bytes))

\* On write "\n" becomes os.linesep, which is "\n" on the POSIX hosts the
\* scripts' shebang lines address.
WriteText(text) == text

(***************************************************************************)
(* fix_imports.py: the registry.                                           *)
(***************************************************************************)
From == <<"from ">>
Up == <<"../">>
Here == <<"./">>
ImportDb == <<"import ", "{ db }", " ">>
ImportUseAuth == <<"import ", "{ useAuth }", " ">>
Config == <<"lib/firebase/config">>
Features(area, hook) == Up \o Up \o Up \o <<"features/", area, "/hooks">> \o hook

\* r'from [\'"]<path>[\'"]' and 'from "<path>"'
FromPat(path) == Lit(From) \o <<Quote>> \o Lit(path) \o <<Quote>>
FromText(path) == From \o <<"\"">> \o path \o <<"\"">>

Rule(pattern, replacement, description) ==
    [pattern |-> pattern, replacement |-> replacement, description |-> description]

\* from '<prefix><name>' -> from "../../../features/<area>/hooks<hook>"
HookRule(prefix, name, area, hook, description) ==
    Rule(FromPat(prefix \o name), FromText(Features(area, hook)), description)

IMPORT_RULES ==
    << Rule(FromPat(Up \o Config), FromText(Up \o Up \o Up \o Config),
            "Firebase config (features)"),
       Rule(Lit(ImportDb) \o FromPat(Up \o Config),
            ImportDb \o FromText(Up \o Up \o Up \o Config),
            "Firebase db import (features)"),
       Rule(FromPat(Up \o Up \o Config), FromText(Up \o Up \o Config),
            "Firebase config (context)"),
       Rule(Lit(ImportDb) \o FromPat(Up \o Up \o Config),
            ImportDb \o FromText(Up \o Up \o Config),
            "Firebase db import (context)"),
       Rule(Lit(ImportDb) \o FromPat(Up \o Up \o Up \o Config),
            FromText(Up \o Up \o Config),
            "Firebase db import (context)"),
       HookRule(Up \o <<"hooks/">>, <<"useAuth">>, "auth", <<>>, "useAuth hook"),
       HookRule(Up \o Up \o <<"hooks/">>, <<"useAuth">>, "auth", <<>>, "useAuth hook"),
       HookRule(Up, <<"useAuth">>, "auth", <<>>, "useAuth hook"),
       HookRule(Here, <<"useAuth">>, "auth", <<>>, "useAuth hook"),
       Rule(Lit(ImportUseAuth) \o FromPat(Up \o <<"useAuth">>),
            ImportUseAuth \o FromText(Features("auth", <<>>)), "useAuth import"),
       Rule(Lit(ImportUseAuth) \o FromPat(Here \o <<"useAuth">>),
            ImportUseAuth \o FromText(Features("auth", <<>>)), "useAuth import"),
       HookRule(Up \o <<"hooks/">>, <<"useDesiderata">>, "planning",
                <<"/", "useDesiderata">>, "useDesiderata hook"),
       HookRule(Up \o Up \o <<"hooks/">>, <<"useDesiderata">>, "planning",
                <<"/", "useDesiderata">>, "useDesiderata hook"),
       HookRule(Up, <<"useDesiderata">>, "planning",
                <<"/", "useDesiderata">>, "useDesiderata hook"),
       HookRule(Here, <<"useDesiderata">>, "planning",
                <<"/", "useDesiderata">>, "useDesiderata hook"),
       HookRule(Up \o <<"hooks/">>, <<"useDesiderata", "State">>, "planning",
                <<"/", "useDesiderata", "State">>, "useDesiderataState hook"),
       HookRule(Up \o Up \o <<"hooks/">>, <<"useDesiderata", "State">>, "planning",
                <<"/", "useDesiderata", "State">>, "useDesiderataState hook"),
       HookRule(Up, <<"useDesiderata", "State">>, "planning",
                <<"/", "useDesiderata", "State">>, "useDesiderataState hook"),
       HookRule(Here, <<"useDesiderata", "State">>, "planning",
                <<"/", "useDesiderata", "State">>, "useDesiderataState hook"),
       HookRule(Up \o <<"hooks/">>, <<"usePlanningPeriod">>, "planning",
                <<"/", "usePlanningPeriod">>, "usePlanningPeriod hook"),
       HookRule(Up \o <<"hooks/">>, <<"useShiftAssignments">>, "planning",
                <<"/", "useShiftAssignments">>, "useShiftAssignments hook"),
       HookRule(Up \o <<"hooks/">>, <<"useUserAssignments">>, "users",
                <<"/", "useUserAssignments">>, "useUserAssignments hook"),
       HookRule(Up \o <<"hooks/">>, <<"useCachedUserData">>, "users",
                <<"/", "useCachedUserData">>, "useCachedUserData hook") >>

FILE_EXTENSIONS == <<".ts", ".tsx", ".js", ".jsx">>


(***************************************************************************)
(* fix_imports.py: process_file.                                           *)
(***************************************************************************)
\* As ChangeEntry, counting the rule and not its matches.
ChangeEntryPerRule(description, matches) ==
    [description |-> description, occurrences |-> 1]

\* f"- {description}: {len(matches)} occurrence(s)"
ChangeEntry(description, matches) ==
    [description |-> description, occurrences |-> Len(matches)]

\* Lines 96-100: whether the rule's change is recorded and kept.
RuleFires(matches, new_content, content) ==
    matches # <<>> /\ new_content # content

RECURSIVE apply_rules(_, _, _, _)
\* As apply_rule, leaving the loop after the first rule that fires.
apply_rule_break(registry, k, content, changes, matches, new_content) ==
    IF RuleFires(matches, new_content, content)
    THEN [content |-> new_content,
          changes |-> Append(changes, ChangeEntry(registry[k].description, matches))]
    ELSE apply_rules(registry, k + 1, content, changes)

\* Lines 96-102: the body of the loop for rule k, given what re.findall and
\* re.sub returned.
apply_rule(registry, k, content, changes, matches, new_content) ==
    IF RuleFires(matches, new_content, content)
    THEN apply_rules(registry, k + 1, new_content,
                     Append(changes, ChangeEntry(registry[k].description, matches)))
    ELSE apply_rules(registry, k + 1, content, changes)

\* Lines 93-102: the for loop of process_file over the registry, from rule k on.
apply_rules(registry, k, content, changes) ==
    IF k > Len(registry) THEN [content |-> content, changes |-> changes]
    ELSE apply_rule(registry, k, content, changes,
                    re_findall(registry[k].pattern, content),
                    re_sub(registry[k].pattern, registry[k].replacement, content))

\* As ShouldWrite, without the dry-run test.
ShouldWriteIgnoringDryRun(content, original_content, dry) ==
    content # original_content

\* As ShouldWrite, without the comparison with the text read.
ShouldWriteUnconditionally(content, original_content, dry) ==
    ~dry

\* Line 105: the guard of the write.
ShouldWrite(content, original_content, dry) ==
    content # original_content /\ ~dry

\* As ReturnedModified, reporting only what was written.
ReturnedModifiedIfWritten(content, original_content, wrote) ==
    wrote

\* Lines 108 and 110: the first component of the returned tuple.
ReturnedModified(content, original_content, wrote) ==
    IF wrote THEN TRUE ELSE content # original_content

\* Lines 87-105 of process_file(file_path, dry_run) on a file holding
\* `bytes`: the text read, the text after the last rule, the change list and
\* whether the file is to be opened for writing.
process_file(registry, bytes, dry) ==
    LET original_content == ReadText(bytes)
        out == apply_rules(registry, 1, original_content, <<>>)
    IN  [original_content |-> original_content,
         content |-> out.content,
         changes |-> out.changes,
         wrote   |-> ShouldWrite(out.content, original_content, dry)]

(***************************************************************************)
(* fix_imports.py: find_typescript_files and main.                         *)
(***************************************************************************)
ExtIndex(ext) == CHOOSE i \in 1..Len(FILE_EXTENSIONS) : FILE_EXTENSIONS[i] = ext

\* The files rglob yields for some extension of FILE_EXTENSIONS.
Discovered(tree) ==
    {f \in DOMAIN tree : \E i \in 1..Len(FILE_EXTENSIONS) : FILE_EXTENSIONS[i] = f.ext}

\* The lists find_typescript_files can return: extension by extension, in
\* the order of FILE_EXTENSIONS; within one extension, in directory order.
find_typescript_files(tree) ==
    LET D == Discovered(tree)
    IN  {fs \in [1..Cardinality(D) -> D] :
            /\ \A i, j \in DOMAIN fs : i # j => fs[i] # fs[j]
            /\ \A i, j \in DOMAIN fs : i < j => ExtIndex(fs[i].ext) <= ExtIndex(fs[j].ext)}

\* Lines 113-133: argument parsing, header, discovery, counters.
Discover ==
    /\ pc = "Idle"
    /\ \E fs \in find_typescript_files(disk) : files' = fs
    /\ pc' = "Processing"
    /\ idx' = 0
    /\ modified_files' = 0
    /\ total_changes' = 0
    /\ UNCHANGED <<rules, disk, start, dry_run, pending, results, writes, printed, runs,
                   prev, calls, ord>>

\* Lines 135-136 and 87-105: the loop takes the next file; process_file
\* reads it and applies the registry.
Transform ==
    /\ pc = "Processing"
    /\ idx < Len(files)
    /\ pending' = <<process_file(rules, disk[files[idx + 1]], dry_run)>>
    /\ pc' = "Transformed"
    /\ UNCHANGED <<rules, disk, start, dry_run, files, idx, modified_files, total_changes,
                   results, writes, printed, runs, prev, calls, ord>>

\* Line 87: open() or read() raises (unreadable file, undecodable bytes);
\* nothing catches it, so the exception leaves main().
ReadFault ==
    /\ pc = "Processing"
    /\ idx < Len(files)
    /\ pc' = "Crashed"
    /\ UNCHANGED <<rules, disk, start, dry_run, files, idx, modified_files, total_changes,
                   pending, results, writes, printed, runs, prev, calls, ord>>

\* Lines 105-110 and 136-143: the write, the return, and main's bookkeeping
\* for the file.
WriteAndReport ==
    /\ pc = "Transformed"
    /\ LET file_path == files[idx + 1]
           r == pending[1]
           modified == ReturnedModified(r.content, r.original_content, r.wrote)
       IN  /\ disk' = IF r.wrote
                      THEN [disk EXCEPT ![file_path] = WriteText(r.content)]
                      ELSE disk
           /\ writes' = IF r.wrote
                        THEN Append(writes, [path |-> file_path, content |-> r.content])
                        ELSE writes
           /\ modified_files' = IF modified THEN modified_files + 1 ELSE modified_files
           /\ total_changes' = IF modified THEN total_changes + Len(r.changes)
                               ELSE total_changes
           /\ results' = Append(results, [path |-> file_path, modified |-> modified,
                                          changes |-> r.changes, wrote |-> r.wrote,
                                          original_content |-> r.original_content,
                                          content |-> r.content])
    /\ idx' = idx + 1
    /\ pending' = <<>>
    /\ pc' = "Processing"
    /\ UNCHANGED <<rules, start, dry_run, files, printed, runs, prev, calls, ord>>

\* Lines 106-107: open(..., 'w') or write() raises.  A failed open leaves the
\* file as it was; a failed write leaves it truncated.
WriteFault ==
    /\ pc = "Transformed"
    /\ pending[1].wrote
    /\ \E left \in {disk[files[idx + 1]], <<>>} :
           disk' = [disk EXCEPT ![files[idx + 1]] = left]
    /\ pc' = "Crashed"
    /\ UNCHANGED <<rules, start, dry_run, files, idx, modified_files, total_changes,
                   pending, results, writes, printed, runs, prev, calls, ord>>

\* Lines 145-152: the summary block.
Summarize ==
    /\ pc = "Processing"
    /\ idx = Len(files)
    /\ printed' = <<[scanned  |-> Len(files),
                     modified |-> modified_files,
                     total    |-> total_changes,
                     hint     |-> dry_run /\ modified_files > 0]>>
    /\ pc' = "Done"
    /\ UNCHANGED <<rules, disk, start, dry_run, files, idx, modified_files, total_changes,
                   pending, results, writes, runs, prev, calls, ord>>

\* The operator invokes the script again on the tree the last run left.
Rerun ==
    /\ pc = "Done"
    /\ runs < MaxRuns
    /\ runs' = runs + 1
    /\ prev' = <<[dry_run |-> dry_run, start |-> start, results |-> results,
                  writes |-> writes, printed |-> printed[1]]>>
    /\ \E d \in BOOLEAN : dry_run' = d
    /\ start' = disk
    /\ pc' = "Idle"
    /\ files' = <<>>
    /\ idx' = 0
    /\ modified_files' = 0
    /\ total_changes' = 0
    /\ results' = <<>>
    /\ writes' = <<>>
    /\ printed' = <<>>
    /\ UNCHANGED <<rules, disk, pending, calls, ord>>

(***************************************************************************)
(* The trees the runs start from.                                          *)
(***************************************************************************)
RECURSIVE Ups(_)
Ups(u) == IF u = 0 THEN <<>> ELSE Up \o Ups(u - 1)

\* [binding] from <q>[./ | ../ ...]<path><q>
Stmt(binding, q, u, path) ==
    binding \o From \o <<q>> \o (IF u = 0 THEN Here ELSE Ups(u)) \o path \o <<q>>

RECURSIVE Lines(_, _, _)
Lines(stmt, k, eol) == IF k <= 1 THEN stmt ELSE stmt \o eol \o Lines(stmt, k - 1, eol)

ImportPaths == {Config, <<"hooks/", "useAuth">>}

Contents ==
    {Lines(Stmt(b, q, u, p), k, e) :
        b \in {<<>>, ImportDb}, q \in {"'", "\""}, u \in 1..MaxUp, p \in ImportPaths,
        k \in 1..MaxRepeat, e \in {<<"\n">>, <<"\r", "\n">>}}

\* One file the rules change and one they leave as it is.
SiblingContents == {Stmt(<<>>, "\"", u, Config) : u \in {1, 2}}

FileA == [dir |-> <<"src", "features">>, stem |-> "a", ext |-> ".ts"]
FileB == [dir |-> <<"src", "features">>, stem |-> "b", ext |-> ".ts"]
Notes == [dir |-> <<"src">>, stem |-> "notes", ext |-> ".md"]

Trees ==
    {[f \in {FileA, FileB, Notes} |->
        IF f = FileA THEN a ELSE IF f = FileB THEN b
        ELSE Stmt(<<>>, "\"", 1, Config)] : a \in Contents, b \in SiblingContents}

InitRun(registry, tree) ==
    /\ rules = registry
    /\ disk = tree
    /\ start = tree
    /\ dry_run \in BOOLEAN
    /\ pc = "Idle"
    /\ files = <<>>
    /\ idx = 0
    /\ modified_files = 0
    /\ total_changes = 0
    /\ pending = <<>>
    /\ results = <<>>
    /\ writes = <<>>
    /\ printed = <<>>
    /\ runs = 1
    /\ prev = <<>>
    /\ calls = <<>>
    /\ ord = <<>>

Init == \E tree \in Trees : InitRun(IMPORT_RULES, tree)

Next ==
    \/ Discover
    \/ Transform
    \/ ReadFault
    \/ WriteAndReport
    \/ WriteFault
    \/ Summarize
    \/ Rerun

Spec == Init /\ [][Next]_vars

(***************************************************************************)
(* The engine on other registries: process_file's loop does not depend on  *)
(* what IMPORT_RULES holds.  Registries of one or two fixed-text rules over *)
(* the lexemes a, b, c and the line ends.                                  *)
(***************************************************************************)
MaxLen == 3       \* lexemes per file under these registries

GenPatterns == {<<"a">>, <<"b">>, <<"a", "b">>}
GenReplacements == {<<>>, <<"b">>, <<"c">>, <<"b", "a">>}
\* ... and one rule that turns line feeds into carriage returns.
GenRules ==
    {Rule(Lit(pt), rp, "rule") : pt \in GenPatterns, rp \in GenReplacements}
    \cup {Rule(Lit(<<"\n">>), <<"\r">>, "rule")}
GenPairs == {<<ra, rb>> : ra \in GenRules, rb \in GenRules}
GenRegistries == {<<ra>> : ra \in GenRules} \cup GenPairs

RECURSIVE Texts(_)
\* The texts of n lexemes over a and b.
Texts(n) ==
    IF n = 0 THEN {<<>>}
    ELSE {<<x>> \o t : x \in {"a", "b"}, t \in Texts(n - 1)}

GenContents == UNION {Texts(n) : n \in 1..MaxLen} \cup {<<"a", "\n", "b">>}

GenTrees == {[f \in {FileA} |-> c] : c \in GenContents}

InitGen == \E registry \in GenRegistries, tree \in GenTrees : InitRun(registry, tree)

SpecGen == InitGen /\ [][Next]_vars

(***************************************************************************)
(* The loop of process_file under the two orders of a two-rule registry.   *)
(***************************************************************************)
InitOrder ==
    /\ \E registry \in GenPairs, c \in GenContents :
           ord = [registry |-> registry, content |-> c, ab |-> <<>>, ba |-> <<>>]
    /\ rules = <<>>
    /\ disk = <<>>
    /\ start = <<>>
    /\ dry_run = TRUE
    /\ pc = "Order"
    /\ files = <<>>
    /\ idx = 0
    /\ modified_files = 0
    /\ total_changes = 0
    /\ pending = <<>>
    /\ results = <<>>
    /\ writes = <<>>
    /\ printed = <<>>
    /\ runs = 1
    /\ prev = <<>>
    /\ calls = <<>>

Reverse(registry) == <<registry[2], registry[1]>>

\* Lines 90-102 with the registry [A, B].
ApplyAB ==
    /\ pc = "Order"
    /\ ord.ab = <<>>
    /\ ord' = [ord EXCEPT !.ab = <<apply_rules(ord.registry, 1, ord.content, <<>>)>>]
    /\ UNCHANGED <<rules, disk, start, dry_run, pc, files, idx, modified_files,
                   total_changes, pending, results, writes, printed, runs, prev, calls>>

\* Lines 90-102 with the registry [B, A].
ApplyBA ==
    /\ pc = "Order"
    /\ ord.ba = <<>>
    /\ ord' = [ord EXCEPT !.ba = <<apply_rules(Reverse(ord.registry), 1, ord.content, <<>>)>>]
    /\ UNCHANGED <<rules, disk, start, dry_run, pc, files, idx, modified_files,
                   total_changes, pending, results, writes, printed, runs, prev, calls>>

NextOrder == ApplyAB \/ ApplyBA

SpecOrder == InitOrder /\ [][NextOrder]_vars

(***************************************************************************)
(* fix_planning_imports.py: fix_imports.                                   *)
(***************************************************************************)
\* (pattern, replacement) pairs of the form
\* (r'from [\'"](<old>)[\'"]', r'from "<new>"')
FromPair(old, new) == [pattern |-> FromPat(old), replacement |-> FromText(new)]

replacements ==
    << FromPair(Up \o <<"context/shiftExchange">>,
                Up \o Up \o Up \o <<"context/shiftExchange">>),
       FromPair(Up \o <<"context/planning/PlanningContext">>,
                Up \o Up \o Up \o <<"context/planning/PlanningContext">>),
       FromPair(Up \o <<"components/common/Switch">>, Up \o <<"components/common/Switch">>),
       FromPair(Up \o <<"components/common/LoadingSpinner">>,
                Up \o <<"components/common/LoadingSpinner">>),
       FromPair(Up \o <<"components/planning/PlanningTutorial">>,
                Up \o <<"components/PlanningTutorial">>),
       FromPair(Up \o <<"components/Toast">>, Up \o Up \o Up \o <<"components/Toast">>),
       [pattern |-> Lit(<<"import ">>) \o <<Grouped(Star(Dot))>> \o Lit(<<" ">>)
                    \o FromPat(Up \o <<"components/planning/GeneratedPlanningTable">>),
        replacement |-> <<"import ", "\\1", " ">>
                        \o FromText(Up \o <<"components/GeneratedPlanningTable">>)],
       FromPair(Up \o <<"types/planning">>, Up \o <<"types">>),
       FromPair(Up \o <<"utils/timeUtils">>, Up \o <<"utils/timeUtils">>),
       FromPair(Up \o <<"utils/lazyExporters">>, Up \o <<"utils/lazyExporters">>),
       FromPair(Up \o <<"lib/firebase/desiderata">>,
                Up \o Up \o Up \o <<"lib/firebase/desiderata">>) >>

RECURSIVE sub_all(_, _, _)
\* Lines 35-36: content = re.sub(pattern, replacement, content) for each pair.
sub_all(pairs, k, content) ==
    IF k > Len(pairs) THEN content
    ELSE sub_all(pairs, k + 1, re_sub(pairs[k].pattern, pairs[k].replacement, content))

\* fix_imports(file_path) on a file holding `bytes`: the file is opened for
\* writing whatever the substitutions did.
fix_imports(bytes) ==
    [original_content |-> ReadText(bytes),
     content |-> sub_all(replacements, 1, ReadText(bytes)),
     wrote   |-> TRUE]

(***************************************************************************)
(* update_imports.py: update_imports_in_file.                              *)
(***************************************************************************)
\* A lexeme that ends a directory, so that "/hooks/useAuth" can follow it.
DirEnd == [cls |-> {"../", "./", "features/"}, neg |-> FALSE, star |-> FALSE, grp |-> 0]

\* r"import\s*{\s*useAuth\s*}\s*from\s*['\"](.*/hooks/useAuth)['\"]"
useAuthPattern ==
    Lit(<<"import ">>) \o Lit(<<"{ useAuth }">>) \o <<Star(Space)>> \o Lit(<<"from ">>)
    \o <<Star(Space), Quote, Grouped(Star(Dot)), Grouped(DirEnd)>>
    \o [i \in 1..2 |-> Grouped(Lit(<<"hooks/", "useAuth">>)[i])] \o <<Quote>>

\* file_path.count('/') - 1
Depth(file_path) == Len(file_path.dir) - 1

\* f"import {{ useAuth }} from '{rel_path}features/auth/hooks'"
useAuthReplacement(file_path) ==
    ImportUseAuth \o From \o <<"'">>
    \o (IF Depth(file_path) > 0 THEN Ups(Depth(file_path)) ELSE <<>>)
    \o <<"features/", "auth", "/hooks", "'">>

update_imports_in_file(file_path, bytes) ==
    LET content == ReadText(bytes)
        new_content == re_sub(useAuthPattern, useAuthReplacement(file_path), content)
    IN  [original_content |-> content,
         content |-> new_content,
         wrote   |-> new_content # content]

(***************************************************************************)
(* The three rewrite entry points, called on the files of a tree.          *)
(***************************************************************************)
MaxCalls == 2     \* entry-point calls on one tree

\* Whether some pattern of the entry point's rules occurs in the text.
Matched(tool, text) ==
    CASE tool = "process_file" ->
             \E k \in 1..Len(IMPORT_RULES) : re_search(IMPORT_RULES[k].pattern, text)
      [] tool = "fix_imports" ->
             \E k \in 1..Len(replacements) : re_search(replacements[k].pattern, text)
      [] tool = "update_imports_in_file" -> re_search(useAuthPattern, text)

\* The call's effect on the tree and its record.
Call(tool, file_path, r) ==
    /\ pc = "Entry"
    /\ Len(calls) < MaxCalls
    /\ disk' = IF r.wrote THEN [disk EXCEPT ![file_path] = WriteText(r.content)] ELSE disk
    /\ calls' = Append(calls, [tool |-> tool, path |-> file_path, before |-> disk[file_path],
                               matched |-> Matched(tool, r.original_content),
                               wrote |-> r.wrote,
                               after |-> IF r.wrote THEN WriteText(r.content)
                                         ELSE disk[file_path]])
    /\ UNCHANGED <<rules, start, dry_run, pc, files, idx, modified_files, total_changes,
                   pending, results, writes, printed, runs, prev, ord>>

\* fix_imports.py: process_file(file_path, dry_run=False)
CallProcessFile ==
    \E f \in DOMAIN disk : Call("process_file", f, process_file(rules, disk[f], FALSE))

\* fix_planning_imports.py: fix_imports(file_path)
CallFixImports ==
    \E f \in DOMAIN disk : Call("fix_imports", f, fix_imports(disk[f]))

\* update_imports.py: update_imports_in_file(file_path)
CallUpdateImports ==
    \E f \in DOMAIN disk :
        Call("update_imports_in_file", f, update_imports_in_file(f, disk[f]))

EntryStmts ==
    {Stmt(b, q, 1, pth) : q \in {"'", "\""},
        b \in {<<>>, ImportUseAuth, <<"import ", "Table", " ">>},
        pth \in {Config, <<"hooks/", "useAuth">>, <<"types/planning">>,
                 <<"utils/timeUtils">>, <<"utils/dates">>,
                 <<"components/planning/GeneratedPlanningTable">>}}

EntryContents ==
    {Lines(st, k, e) : st \in EntryStmts, k \in 1..MaxRepeat,
                       e \in {<<"\n">>, <<"\r", "\n">>}}

Main == [dir |-> <<"src">>, stem |-> "main", ext |-> ".tsx"]

EntryTrees ==
    {[f \in {FileA, Main} |->
        IF f = FileA THEN a ELSE Stmt(ImportUseAuth, "'", 0, <<"hooks/", "useAuth">>)] :
        a \in EntryContents}

InitEntry ==
    /\ rules = IMPORT_RULES
    /\ disk \in EntryTrees
    /\ start = disk
    /\ dry_run = FALSE
    /\ pc = "Entry"
    /\ files = <<>>
    /\ idx = 0
    /\ modified_files = 0
    /\ total_changes = 0
    /\ pending = <<>>
    /\ results = <<>>
    /\ writes = <<>>
    /\ printed = <<>>
    /\ runs = 1
    /\ prev = <<>>
    /\ calls = <<>>
    /\ ord = <<>>

NextEntry == CallProcessFile \/ CallFixImports \/ CallUpdateImports

SpecEntry == InitEntry /\ [][NextEntry]_vars

(***************************************************************************)
(* Properties.                                                             *)
(***************************************************************************)
WasWritten(path) == \E i \in DOMAIN writes : writes[i].path = path

Returned(rs) ==
    {[path |-> rs[i].path, modified |-> rs[i].modified, changes |-> rs[i].changes] :
        i \in DOMAIN rs}

RECURSIVE SumOccurrences(_)
SumOccurrences(changes) ==
    IF changes = <<>> THEN 0
    ELSE Head(changes).occurrences + SumOccurrences(Tail(changes))

RECURSIVE SumOverModified(_)
SumOverModified(rs) ==
    IF rs = <<>> THEN 0
    ELSE (IF Head(rs).modified THEN SumOccurrences(Head(rs).changes) ELSE 0)
         + SumOverModified(Tail(rs))

\* C1: in dry-run mode no file is ever written: throughout a run started with
\* --dry-run the tree equals the tree the run started from, whatever matched.
C1_DryRunWritesNothing == dry_run => (disk = start /\ writes = <<>>)

\* A completed dry run in which rules matched and a file was reported modified.
C1_Witness ==
    /\ dry_run
    /\ pc = "Done"
    /\ \E i \in DOMAIN results : results[i].modified /\ results[i].changes # <<>>

\* C2: at the end of a run the reported total change count equals the sum of
\* the occurrence counts of all change entries of the modified files.
C2_TotalIsSumOfOccurrences ==
    pc = "Done" => printed[1].total = SumOverModified(results)

\* C3: an I/O fault on one file does not abort the run: a run that has stopped
\* has printed its summary and has processed every discovered file other than
\* the one that failed.
C3_FaultDoesNotAbort ==
    pc \in {"Done", "Crashed"} =>
        /\ printed # <<>>
        /\ \A i \in DOMAIN files :
               (pc = "Crashed" /\ i = idx + 1)
               \/ \E j \in DOMAIN results : results[j].path = files[i]

\* C4: no-op preservation at every rewrite entry point: a call on a file in
\* which no pattern of that entry point's rules occurs performs no write and
\* leaves the file's content as it was.
C4_NoOpPreserved ==
    \A i \in DOMAIN calls :
        ~calls[i].matched => (~calls[i].wrote /\ calls[i].after = calls[i].before)

\* C5: in apply mode process_file writes a file if and only if the content
\* after the last rule differs from the content read; what it writes is that
\* final content; and it reports the file modified exactly when it wrote it.
C5_WritesIffChanged ==
    ~dry_run =>
        \A i \in DOMAIN results :
            LET r == results[i]
            IN  /\ WasWritten(r.path) <=> r.content # r.original_content
                /\ WasWritten(r.path) =>
                       /\ \A w \in DOMAIN writes :
                              writes[w].path = r.path => writes[w].content = r.content
                       /\ disk[r.path] = r.content
                /\ ~WasWritten(r.path) => disk[r.path] = start[r.path]
                /\ r.modified <=> WasWritten(r.path)

\* A completed apply run that wrote one file and left another untouched.
C5_Witness ==
    /\ ~dry_run
    /\ pc = "Done"
    /\ \E i, j \in DOMAIN results :
           /\ WasWritten(results[i].path)
           /\ ~WasWritten(results[j].path)

\* C6: dry-run equivalence: a dry run followed by an apply run on the same
\* tree return, file by file, the same modified flag and the same change
\* entries, and print the same counts; only the apply run writes.
C6_DryRunEquivalence ==
    (pc = "Done" /\ prev # <<>> /\ prev[1].dry_run /\ ~dry_run) =>
        /\ Returned(results) = Returned(prev[1].results)
        /\ printed[1].modified = prev[1].printed.modified
        /\ printed[1].total = prev[1].printed.total
        /\ prev[1].writes = <<>>

\* A dry run and then an apply run, both complete, with changes to make.
C6_Witness ==
    /\ pc = "Done" /\ prev # <<>> /\ prev[1].dry_run /\ ~dry_run
    /\ writes # <<>>
    /\ printed[1].total > 0

\* The text a fixed-text pattern matches, and the lexemes it is made of.
PatternLexemes(pattern) == UNION {pattern[k].cls : k \in DOMAIN pattern}
Lexemes(text) == {text[k] : k \in DOMAIN text}

\* "Replacements never re-match their own (or an earlier) pattern."
NeverRematch(registry) ==
    \A i, j \in DOMAIN registry :
        i <= j => ~re_search(registry[i].pattern, registry[j].replacement)

\* Replacements are non-empty, hold no carriage return (which the next read
\* would turn into a line feed) and share no lexeme with their own or an
\* earlier pattern: no match can contain or straddle replaced text.
NeverOverlap(registry) ==
    \A i, j \in DOMAIN registry :
        i <= j => /\ registry[j].replacement # <<>>
                  /\ "\r" \notin Lexemes(registry[j].replacement)
                  /\ Lexemes(registry[j].replacement)
                         \cap PatternLexemes(registry[i].pattern) = {}

SecondRunAfterApply == pc = "Done" /\ prev # <<>> /\ ~prev[1].dry_run

ZeroChanges ==
    /\ writes = <<>>
    /\ \A i \in DOMAIN results : ~results[i].modified /\ results[i].changes = <<>>

\* C7 as stated: for a rule set whose replacements never re-match their own or
\* an earlier pattern, a run after an apply run produces zero changes.
C7_FixedPointAsStated ==
    (SecondRunAfterApply /\ NeverRematch(rules)) => ZeroChanges

\* C7 amended: for a rule set of fixed-text patterns whose replacements are
\* non-empty, hold no carriage return and share no lexeme with their own or an
\* earlier pattern, a run after an apply run produces zero changes: every file
\* is reported unmodified with an empty change list and no file is written.
C7_FixedPoint ==
    (SecondRunAfterApply /\ NeverOverlap(rules)) => ZeroChanges

\* A second run after an apply run in which both rules fired, the second on
\* the output of the first.
C7_Witness ==
    /\ SecondRunAfterApply
    /\ NeverOverlap(rules)
    /\ prev[1].writes # <<>>
    /\ \E i \in DOMAIN prev[1].results : Len(prev[1].results[i].changes) = 2

RECURSIVE EntryPerMatchingRule(_, _, _, _)
\* The Rule Applier as the claim states it: an entry for each rule with a
\* match in the evolving content.
EntryPerMatchingRule(registry, k, content, changes) ==
    IF k > Len(registry) THEN [content |-> content, changes |-> changes]
    ELSE IF re_search(registry[k].pattern, content)
         THEN EntryPerMatchingRule(registry, k + 1,
                  re_sub_from(registry[k].pattern, registry[k].replacement, content, 1),
                  Append(changes,
                         [description |-> registry[k].description,
                          occurrences |-> Len(re_findall(registry[k].pattern, content))]))
         ELSE EntryPerMatchingRule(registry, k + 1, content, changes)

RECURSIVE EntryPerChangingRule(_, _, _, _)
\* The same, with an entry only for a rule whose substitution changes the
\* content it is applied to.
EntryPerChangingRule(registry, k, content, changes) ==
    IF k > Len(registry) THEN [content |-> content, changes |-> changes]
    ELSE IF /\ re_search(registry[k].pattern, content)
            /\ re_sub_from(registry[k].pattern, registry[k].replacement, content, 1)
                   # content
         THEN EntryPerChangingRule(registry, k + 1,
                  re_sub_from(registry[k].pattern, registry[k].replacement, content, 1),
                  Append(changes,
                         [description |-> registry[k].description,
                          occurrences |-> Len(re_findall(registry[k].pattern, content))]))
         ELSE EntryPerChangingRule(registry, k + 1, content, changes)

PatternText(pattern) == [k \in DOMAIN pattern |-> CHOOSE x \in pattern[k].cls : TRUE]

BothOrdersApplied == pc = "Order" /\ ord.ab # <<>> /\ ord.ba # <<>>

\* R1 contains text matching P2.
Feeds(ruleA, ruleB) == re_search(ruleB.pattern, ruleA.replacement)

\* C9 as stated: for rule A (P1 -> R1) and rule B (P2 -> R2) where R1 contains
\* text matching P2, [A, B] applied to a file yields a different result than
\* [B, A].
C9_OrdersDifferAsStated ==
    (BothOrdersApplied /\ Feeds(ord.registry[1], ord.registry[2])) =>
        ord.ab[1].content # ord.ba[1].content

CascadeCase ==
    /\ BothOrdersApplied
    /\ Feeds(ord.registry[1], ord.registry[2])
    /\ re_search(ord.registry[1].pattern, ord.content)
    /\ ~re_search(ord.registry[2].pattern, ord.content)
    /\ ord.registry[2].replacement # PatternText(ord.registry[2].pattern)

\* C9 amended: each rule is matched against the output of the earlier rules:
\* for A (P1 -> R1) and B (P2 -> R2) where R1 contains text matching P2 and R2
\* differs from the text P2 matches, on a file that contains a match of P1 and
\* none of P2, [A, B] fires both rules, [B, A] fires only A, and the two
\* results differ.
C9_OrdersDiffer ==
    CascadeCase =>
        /\ ord.ab[1].content # ord.ba[1].content
        /\ Len(ord.ab[1].changes) = 2
        /\ Len(ord.ba[1].changes) = 1

C9_Witness == CascadeCase

ImportDbClauses(text) == Len(re_findall(Lit(ImportDb \o From), text))

\* C10: with IMPORT_RULES, process_file rewrites only the quoted module path:
\* every statement that begins with "import { db } from" in the text read
\* still begins with it in the final content.
C10_BindingClauseKept ==
    pending # <<>> =>
        ImportDbClauses(pending[1].content) = ImportDbClauses(pending[1].original_content)

====
